---- MODULE Spec2Model ----
(***************************************************************************)
(* Model of main.py, the skyscraper dashboard script.  One run of the      *)
(* script is the chain LoadData -> Sidebar -> ApplyFilters -> DropColumns  *)
(* -> Tab1 .. Tab6; a widget interaction of the user re-runs the script    *)
(* from the top with the new widget value.                                 *)
(*                                                                         *)
(* Heights are floats in the program.  They are modelled in fixed point,   *)
(* as integer multiples of 1/Scale metre; a nullable numeric cell is a     *)
(* sequence of length 0 (NaN) or 1 (the number); a missing text cell is    *)
(* the marker NaN.                                                         *)
(***************************************************************************)
EXTENDS Integers, Sequences, FiniteSets, TLC

\* ------------------------------------------------------------------ bounds
\* fixed-point resolution of the modelled heights: 1/Scale metre
Scale == 4
\* rows of a modelled file beyond the two rows that make the slider defaults legal
MaxExtra == 1
\* distinct extra cities of the wide file (more than the ten the bar chart keeps)
NumWideCities == 11
\* the user selects at most this many cities in the multiselect
MaxSel == 1
\* the user picks one of the first MaxPick options of the select box
MaxPick == 2

\* --------------------------------------------------------- program constants
DefaultYearRange == <<1850, 2020>>
DefaultHeightRange == <<0, 1609>>
TopN == 10
TrendStop == 2025
DownloadName == "filtered_skyscrapers.csv"
NoMapMessage == "No data available or missing latitude/longitude columns for visualization."
NoDownloadMessage == "No data available for download."

\* what pandas reads from an empty cell
NaN == "NaN"

\* ------------------------------------------------------------- the csv file
\* the columns of skyscrapers.csv that the model carries (dotted, as in the file)
CsvColumns ==
  {"id", "location.city", "location.latitude", "location.longitude",
   "statistics.height", "status.completed.year", "purposes.office"}

CsvRow(id, city, lat, lon, height, year) ==
  [c \in CsvColumns |->
     CASE c = "id" -> id
       [] c = "location.city" -> city
       [] c = "location.latitude" -> lat
       [] c = "location.longitude" -> lon
       [] c = "statistics.height" -> height
       [] c = "status.completed.year" -> year
       [] OTHER -> FALSE]

\* two rows that put the slider defaults inside the slider bounds
Anchors ==
  << CsvRow(1, "New York", 40, -74, 0, 1850),
     CsvRow(2, "Jeddah", 21, 39, 1609 * Scale, 2020) >>

\* further rows: an unknown year (0), a missing city, a year past TrendStop,
\* heights with a fractional part
Extras ==
  { CsvRow(3, NaN, 10, 10, Scale \div 2, 0),
    CsvRow(4, NaN, 12, 10, 2 * Scale + (Scale \div 2), 2026),
    CsvRow(5, "Chicago", 41, -87, 1, 2024) }

RECURSIVE SeqsUpTo(_, _)
SeqsUpTo(S, n) ==
  IF n = 0 THEN {<<>>}
  ELSE LET shorter == SeqsUpTo(S, n - 1)
       IN shorter \cup {Append(s, x) : s \in shorter, x \in S}

\* a file with NumWideCities further cities; the even-numbered ones have two rows
WideCsv ==
  Anchors
  \o [i \in 1..NumWideCities |-> CsvRow(10 + i, ToString(i), i, i, 1609 * Scale, 2020)]
  \o [i \in 1..(NumWideCities \div 2) |->
        CsvRow(50 + i, ToString(2 * i), i, i, 0, 1850)]

\* a file without the coordinate columns
NoCoordCsv ==
  [i \in 1..Len(Anchors) |->
     [c \in CsvColumns \ {"location.latitude", "location.longitude"} |-> Anchors[i][c]]]

CsvFiles ==
  LET tails == SeqsUpTo(Extras, MaxExtra)
  IN {Anchors \o t : t \in tails} \cup tails \cup {WideCsv, NoCoordCsv}

\* ------------------------------------------------------------------ helpers
Min(a, b) == IF a <= b THEN a ELSE b

SetMin(S) == CHOOSE x \in S : \A y \in S : x <= y
SetMax(S) == CHOOSE x \in S : \A y \in S : y <= x

Range(s) == {s[i] : i \in 1..Len(s)}

\* ---------------------------------------------------------------- the state
VARIABLES
  csv,            \* skyscrapers.csv
  pc,             \* the statement the run is at
  exception,      \* "" or the exception that ended the run
  df, columns,    \* the loaded table and its column labels
  year_range, height_range, city_filter,   \* the sidebar widgets' values
  selectbox,      \* the map's select box: its options and the chosen index
  filtered_df, filtered_columns,
  tab1, tab2, tab3, tab4, tab5, tab6        \* what each tab shows

vars == <<csv, pc, exception, df, columns, year_range, height_range, city_filter,
          selectbox, filtered_df, filtered_columns, tab1, tab2, tab3, tab4, tab5, tab6>>

widgets == <<year_range, height_range, city_filter, selectbox>>
tabs == <<tab1, tab2, tab3, tab4, tab5, tab6>>

Nothing == [kind |-> "none"]
NoWidget == [options |-> <<>>, index |-> 0]

Running(step) == pc = step /\ exception = ""

\* ------------------------------------------------- lines 9-14: load and clean
\* df.columns.str.replace('.', '_') on the labels the model carries
Rename(c) ==
  CASE c = "id" -> "id"
    [] c = "location.city" -> "location_city"
    [] c = "location.latitude" -> "location_latitude"
    [] c = "location.longitude" -> "location_longitude"
    [] c = "statistics.height" -> "statistics_height"
    [] c = "status.completed.year" -> "status_completed_year"
    [] c = "purposes.office" -> "purposes_office"

\* location.city left as read
FillCity_Skipped(v) == v

\* fillna('Unknown') on one cell of location.city
FillCity(v) == IF v = NaN THEN "Unknown" ELSE v

\* the year 0 kept as a year
ReplaceZeroYear_Skipped(y) == <<y>>

\* replace(0, np.nan) on one cell of status_completed_year
ReplaceZeroYear(y) == IF y = 0 THEN <<>> ELSE <<y>>

\* the cleaned row at index label i; "_idx" is the index label, not a column
CleanRow(raw, i) ==
  [c \in {Rename(k) : k \in DOMAIN raw} \cup {"_idx"} |->
     IF c = "_idx" THEN i - 1
     ELSE LET k == CHOOSE k \in DOMAIN raw : Rename(k) = c
          IN CASE k = "location.city" -> FillCity(raw[k])
               [] k = "status.completed.year" -> ReplaceZeroYear(raw[k])
               [] OTHER -> raw[k]]

ReadAndClean(file) == [i \in 1..Len(file) |-> CleanRow(file[i], i)]

ColumnsOf(file) ==
  IF file = <<>> THEN {Rename(k) : k \in CsvColumns}
  ELSE {Rename(k) : k \in DOMAIN file[1]}

LoadData ==
  /\ Running("load")
  /\ df' = ReadAndClean(csv)
  /\ columns' = ColumnsOf(csv)
  /\ pc' = "sidebar"
  /\ UNCHANGED <<csv, exception, widgets, filtered_df, filtered_columns, tabs>>

\* ------------------------------------------------------ lines 56-73: sidebar
KnownYears(t) ==
  {t[i].status_completed_year[1] :
     i \in {j \in 1..Len(t) : t[j].status_completed_year # <<>>}}

Heights(t) == {t[i].statistics_height : i \in 1..Len(t)}

\* int(x): truncation of a non-negative fixed-point height to whole metres
IntOfHeight(h) == h \div Scale

\* series.min() / series.max() skip NaN and are NaN on an all-NaN series;
\* int(NaN) raises ValueError
YearBoundsDefined(t) == KnownYears(t) # {}
YearBounds(t) == <<SetMin(KnownYears(t)), SetMax(KnownYears(t))>>
HeightBounds(t) == <<IntOfHeight(SetMin(Heights(t))), IntOfHeight(SetMax(Heights(t)))>>

\* st.slider raises when the value is outside [min_value, max_value]
SliderAccepts(value, bounds) ==
  /\ bounds[1] <= value[1]
  /\ value[1] <= value[2]
  /\ value[2] <= bounds[2]

\* first-seen order of the values of a column
RECURSIVE Unique(_)
Unique(s) ==
  IF s = <<>> THEN <<>>
  ELSE LET rest == Unique(SubSeq(s, 1, Len(s) - 1))
           x == s[Len(s)]
       IN IF x \in Range(rest) THEN rest ELSE Append(rest, x)

Column(t, c) == [i \in 1..Len(t) |-> t[i][c]]

CityOptions(t) == Unique(Column(t, "location_city"))

SidebarOk ==
  /\ YearBoundsDefined(df)
  /\ SliderAccepts(year_range, YearBounds(df))
  /\ SliderAccepts(height_range, HeightBounds(df))

Sidebar ==
  /\ Running("sidebar")
  /\ SidebarOk
  /\ pc' = "filter"
  /\ UNCHANGED <<csv, exception, df, columns, widgets, filtered_df, filtered_columns, tabs>>

SidebarRaises ==
  /\ Running("sidebar")
  /\ ~SidebarOk
  /\ exception' = IF YearBoundsDefined(df) THEN "StreamlitAPIException" ELSE "ValueError"
  /\ UNCHANGED <<csv, pc, df, columns, widgets, filtered_df, filtered_columns, tabs>>

\* -------------------------------------------------- lines 75-83: the filters
\* NaN >= x and NaN <= x are False
YearInRange(y, range) == y # <<>> /\ y[1] >= range[1] /\ y[1] <= range[2]

HeightInRange(h, range) == h >= range[1] * Scale /\ h <= range[2] * Scale

RangeFilter(t, years, heights) ==
  SelectSeq(t, LAMBDA r : /\ YearInRange(r.status_completed_year, years)
                          /\ HeightInRange(r.statistics_height, heights))

\* the city filter applied to an empty selection too
CityFilter_Unguarded(t, cities) ==
  SelectSeq(t, LAMBDA r : r.location_city \in cities)

CityFilter(t, cities) ==
  IF cities # {}
  THEN SelectSeq(t, LAMBDA r : r.location_city \in cities)
  ELSE t

ApplyFilters ==
  /\ Running("filter")
  /\ filtered_df' = CityFilter(RangeFilter(df, year_range, height_range), city_filter)
  /\ filtered_columns' = columns
  /\ pc' = "drop"
  /\ UNCHANGED <<csv, exception, df, columns, widgets, tabs>>

\* ------------------------------------------------ lines 85-94: drop columns
\* the labels of columns_to_exclude that the model carries
ColumnsToExclude == {"id", "purposes_office"}

DropRow(r, excluded) == [c \in DOMAIN r \ excluded |-> r[c]]

Drop(t, excluded) == [i \in 1..Len(t) |-> DropRow(t[i], excluded)]

DropColumns ==
  /\ Running("drop")
  /\ ColumnsToExclude \subseteq filtered_columns
  /\ filtered_df' = Drop(filtered_df, ColumnsToExclude)
  /\ filtered_columns' = filtered_columns \ ColumnsToExclude
  /\ pc' = "tab1"
  /\ UNCHANGED <<csv, exception, df, columns, widgets, tabs>>

\* ------------------------------------------------------- lines 101-104: tab 1
Tab1 ==
  /\ Running("tab1")
  /\ tab1' = [kind |-> "table", columns |-> filtered_columns, data |-> filtered_df]
  /\ pc' = "tab2"
  /\ UNCHANGED <<csv, exception, df, columns, widgets, filtered_df, filtered_columns,
                 tab2, tab3, tab4, tab5, tab6>>

\* ------------------------------------------------------- lines 106-152: tab 2
\* round(x, 0) of a float series: to the nearest whole metre, a tie to the even one
RoundHeight(h) ==
  LET q == h \div Scale
      r == h % Scale
  IN Scale * (IF 2 * r < Scale THEN q
              ELSE IF 2 * r > Scale THEN q + 1
              ELSE IF q % 2 = 0 THEN q ELSE q + 1)

RoundHeights(t) ==
  [i \in 1..Len(t) |-> [t[i] EXCEPT !.statistics_height = RoundHeight(@)]]

\* a == b on cells of a text column: NaN equals nothing
CityEq(a, b) == a # NaN /\ b # NaN /\ a = b

RECURSIVE SeqSum(_)
SeqSum(s) == IF s = <<>> THEN 0 ELSE Head(s) + SeqSum(Tail(s))

\* series.mean(), as the fraction <<sum, count>>; NaN on an empty series
Mean(s) == IF s = <<>> THEN <<>> ELSE <<SeqSum(s), Len(s)>>

\* st.selectbox(options, index=0): the widget keeps the user's choice while its
\* options are the same, and is a new widget at index 0 when they are not
SelectboxIndex(widget, options) ==
  IF widget.options = options THEN widget.index ELSE 1

CityData(t, city) == SelectSeq(t, LAMBDA r : CityEq(r.location_city, city))

MapView(t, city) ==
  LET city_data == CityData(t, city)
  IN [kind |-> "pydeck_chart",
      selected_city |-> city,
      city_data |-> city_data,
      view_state |-> [latitude |-> Mean(Column(city_data, "location_latitude")),
                      longitude |-> Mean(Column(city_data, "location_longitude")),
                      zoom |-> 12, pitch |-> 50]]

MapAvailable(t, cols) ==
  /\ t # <<>>
  /\ "location_latitude" \in cols
  /\ "location_longitude" \in cols

Tab2Map ==
  /\ Running("tab2")
  /\ filtered_df' = RoundHeights(filtered_df)
  /\ MapAvailable(filtered_df', filtered_columns)
  /\ LET unique_cities == Unique(Column(filtered_df', "location_city"))
         index == SelectboxIndex(selectbox, unique_cities)
     IN /\ selectbox' = [options |-> unique_cities, index |-> index]
        /\ tab2' = MapView(filtered_df', unique_cities[index])
  /\ pc' = "tab3"
  /\ UNCHANGED <<csv, exception, df, columns, year_range, height_range, city_filter,
                 filtered_columns, tab1, tab3, tab4, tab5, tab6>>

Tab2NoData ==
  /\ Running("tab2")
  /\ filtered_df' = RoundHeights(filtered_df)
  /\ ~MapAvailable(filtered_df', filtered_columns)
  /\ selectbox' = NoWidget
  /\ tab2' = [kind |-> "text", text |-> NoMapMessage]
  /\ pc' = "tab3"
  /\ UNCHANGED <<csv, exception, df, columns, year_range, height_range, city_filter,
                 filtered_columns, tab1, tab3, tab4, tab5, tab6>>

\* ------------------------------------------------------- lines 154-171: tab 3
\* ascending insertion sort
RECURSIVE SortAsc(_)
SortAsc(s) ==
  IF s = <<>> THEN <<>>
  ELSE LET rest == SortAsc(Tail(s))
           x == Head(s)
           k == Cardinality({i \in 1..Len(rest) : rest[i] < x})
       IN SubSeq(rest, 1, k) \o <<x>> \o SubSeq(rest, k + 1, Len(rest))

\* num / den rounded to the nearest integer, a tie to the even one (den > 0, num >= 0)
RoundDiv(num, den) ==
  LET q == num \div den
      r == num % den
  IN IF 2 * r < den THEN q
     ELSE IF 2 * r > den THEN q + 1
     ELSE IF q % 2 = 0 THEN q ELSE q + 1

\* series.max(), series.min(): NaN on an empty series
SeriesMax(s) == IF s = <<>> THEN <<>> ELSE <<SetMax(Range(s))>>
SeriesMin(s) == IF s = <<>> THEN <<>> ELSE <<SetMin(Range(s))>>

\* round(series.mean(), 2), in hundredths of a metre
SeriesMeanRounded(s) ==
  IF s = <<>> THEN <<>> ELSE <<RoundDiv(100 * SeqSum(s), Scale * Len(s))>>

\* series.median(), in units of 1/(2 * Scale) metre
SeriesMedian(s) ==
  IF s = <<>> THEN <<>>
  ELSE LET o == SortAsc(s)
           n == Len(o)
       IN IF n % 2 = 1 THEN <<2 * o[(n + 1) \div 2]>>
          ELSE <<o[n \div 2] + o[(n \div 2) + 1]>>

NonZero(t) == SelectSeq(t, LAMBDA r : r.statistics_height > 0)

Summary(t) ==
  LET heights == Column(NonZero(t), "statistics_height")
  IN [kind |-> "summary",
      tallest |-> SeriesMax(heights),
      shortest |-> SeriesMin(heights),
      average |-> SeriesMeanRounded(heights),
      median |-> SeriesMedian(heights),
      number |-> Len(NonZero(t))]

Tab3 ==
  /\ Running("tab3")
  /\ tab3' = Summary(filtered_df)
  /\ pc' = "tab4"
  /\ UNCHANGED <<csv, exception, df, columns, widgets, filtered_df, filtered_columns,
                 tab1, tab2, tab4, tab5, tab6>>

\* ------------------------------------------------------- lines 173-186: tab 4
Count(s, v) == Cardinality({i \in 1..Len(s) : s[i] = v})

\* entries in first-seen order sorted by descending value, ties keeping their order
RECURSIVE SortByValueDesc(_)
SortByValueDesc(s) ==
  IF s = <<>> THEN <<>>
  ELSE LET rest == SortByValueDesc(SubSeq(s, 1, Len(s) - 1))
           x == s[Len(s)]
           k == Cardinality({i \in 1..Len(rest) : rest[i].value >= x.value})
       IN SubSeq(rest, 1, k) \o <<x>> \o SubSeq(rest, k + 1, Len(rest))

\* series.value_counts() of a series without NaN: a series indexed by the values
ValueCounts(s) ==
  LET u == Unique(s)
  IN SortByValueDesc([i \in 1..Len(u) |-> [index |-> u[i], value |-> Count(s, u[i])]])

\* series.head(n)
Head_(s, n) == SubSeq(s, 1, Min(n, Len(s)))

\* value_counts() leaves NaN out
DropNaText(s) == SelectSeq(s, LAMBDA v : v # NaN)

\* the counts of all the cities, not the first ten
CityCounts_All(t) == ValueCounts(DropNaText(Column(t, "location_city")))

CityCounts(t) == Head_(ValueCounts(DropNaText(Column(t, "location_city"))), TopN)

Tab4 ==
  /\ Running("tab4")
  /\ tab4' = [kind |-> "bar", city_counts |-> CityCounts(filtered_df)]
  /\ pc' = "tab5"
  /\ UNCHANGED <<csv, exception, df, columns, widgets, filtered_df, filtered_columns,
                 tab1, tab2, tab3, tab5, tab6>>

\* ------------------------------------------------------- lines 188-203: tab 5
\* series.dropna() of a numeric column, as plain numbers
DropNa(s) ==
  LET known == SelectSeq(s, LAMBDA v : v # <<>>)
  IN [i \in 1..Len(known) |-> known[i][1]]

Index(s) == {s[i].index : i \in 1..Len(s)}

At(s, k) == (CHOOSE e \in Range(s) : e.index = k).value

\* the series with the values f[k] over the integer index labels K, in ascending
\* label order
Ascending(K, f) ==
  IF K = {} THEN <<>>
  ELSE LET lo == SetMin(K)
           hi == SetMax(K)
           labels == SelectSeq([i \in 1..(hi - lo + 1) |-> lo + i - 1], LAMBDA y : y \in K)
       IN [i \in 1..Len(labels) |-> [index |-> labels[i], value |-> f[labels[i]]]]

\* series.sort_index()
SortIndex(s) == Ascending(Index(s), [k \in Index(s) |-> At(s, k)])

\* pd.Series(0, index=pd.RangeIndex(start, stop))
ZeroSeries(start, stop) ==
  [i \in 1..(stop - start) |-> [index |-> start + i - 1, value |-> 0]]

\* a.add(b, fill_value=0).sort_index(): over the union of the two indexes
AddFill(a, b) ==
  Ascending(Index(a) \cup Index(b),
            [k \in Index(a) \cup Index(b) |->
               (IF k \in Index(a) THEN At(a, k) ELSE 0)
               + (IF k \in Index(b) THEN At(b, k) ELSE 0)])

YearCounts(t) == SortIndex(ValueCounts(DropNa(Column(t, "status_completed_year"))))

Trend(year_counts) ==
  AddFill(ZeroSeries(SetMin(Index(year_counts)), TrendStop), year_counts)

Tab5 ==
  /\ Running("tab5")
  /\ YearCounts(filtered_df) # <<>>
  /\ tab5' = [kind |-> "line", year_counts |-> Trend(YearCounts(filtered_df))]
  /\ pc' = "tab6"
  /\ UNCHANGED <<csv, exception, df, columns, widgets, filtered_df, filtered_columns,
                 tab1, tab2, tab3, tab4, tab6>>

\* int(year_counts.index.min()) on an empty index is int(NaN)
Tab5Raises ==
  /\ Running("tab5")
  /\ YearCounts(filtered_df) = <<>>
  /\ exception' = "ValueError"
  /\ UNCHANGED <<csv, pc, df, columns, widgets, filtered_df, filtered_columns, tabs>>

\* ------------------------------------------------------- lines 205-217: tab 6
\* to_csv(index=False): the header and one line per row, without the index label
ToCsv(t, cols) ==
  [header |-> cols, lines |-> [i \in 1..Len(t) |-> [c \in cols |-> t[i][c]]]]

Tab6 ==
  /\ Running("tab6")
  /\ tab6' = IF filtered_df # <<>>
             THEN [kind |-> "download_button", file_name |-> DownloadName,
                   mime |-> "text/csv", data |-> ToCsv(filtered_df, filtered_columns)]
             ELSE [kind |-> "text", text |-> NoDownloadMessage]
  /\ pc' = "done"
  /\ UNCHANGED <<csv, exception, df, columns, widgets, filtered_df, filtered_columns,
                 tab1, tab2, tab3, tab4, tab5>>

\* ------------------------------------------------------ the user's interactions
\* the run is over and the sidebar widgets are on the page
SidebarShown == pc = "done" \/ (exception # "" /\ pc # "sidebar")

\* a widget interaction re-runs the script from the top
Rerun ==
  /\ pc' = "load"
  /\ exception' = ""
  /\ filtered_df' = <<>>
  /\ filtered_columns' = {}
  /\ tab1' = Nothing /\ tab2' = Nothing /\ tab3' = Nothing
  /\ tab4' = Nothing /\ tab5' = Nothing /\ tab6' = Nothing
  /\ UNCHANGED <<csv, df, columns>>

\* slider positions that tell the rows of the table apart
YearStops(t) ==
  {y \in KnownYears(t) \cup Range(DefaultYearRange) :
     YearBounds(t)[1] <= y /\ y <= YearBounds(t)[2]}

HeightStops(t) ==
  {h \in {IntOfHeight(x) : x \in Heights(t)} \cup Range(DefaultHeightRange) :
     HeightBounds(t)[1] <= h /\ h <= HeightBounds(t)[2]}

ChangeYearRange ==
  /\ SidebarShown
  /\ \E lo \in YearStops(df), hi \in YearStops(df) :
       /\ lo <= hi
       /\ <<lo, hi>> # year_range
       /\ year_range' = <<lo, hi>>
  /\ Rerun
  /\ UNCHANGED <<height_range, city_filter, selectbox>>

ChangeHeightRange ==
  /\ SidebarShown
  /\ \E lo \in HeightStops(df), hi \in HeightStops(df) :
       /\ lo <= hi
       /\ <<lo, hi>> # height_range
       /\ height_range' = <<lo, hi>>
  /\ Rerun
  /\ UNCHANGED <<year_range, city_filter, selectbox>>

ChangeCities ==
  /\ SidebarShown
  /\ \E cities \in SUBSET Range(CityOptions(df)) :
       /\ Cardinality(cities) <= MaxSel
       /\ cities # city_filter
       /\ city_filter' = cities
  /\ Rerun
  /\ UNCHANGED <<year_range, height_range, selectbox>>

SelectCity ==
  /\ pc = "done"
  /\ tab2.kind = "pydeck_chart"
  /\ \E i \in 1..Min(MaxPick, Len(selectbox.options)) :
       /\ i # selectbox.index
       /\ selectbox' = [selectbox EXCEPT !.index = i]
  /\ Rerun
  /\ UNCHANGED <<year_range, height_range, city_filter>>

\* ---------------------------------------------------------- the specification
Init ==
  /\ csv \in CsvFiles
  /\ pc = "load"
  /\ exception = ""
  /\ df = <<>>
  /\ columns = {}
  /\ year_range = DefaultYearRange
  /\ height_range = DefaultHeightRange
  /\ city_filter = {}
  /\ selectbox = NoWidget
  /\ filtered_df = <<>>
  /\ filtered_columns = {}
  /\ tab1 = Nothing /\ tab2 = Nothing /\ tab3 = Nothing
  /\ tab4 = Nothing /\ tab5 = Nothing /\ tab6 = Nothing

Next ==
  \/ LoadData
  \/ Sidebar
  \/ SidebarRaises
  \/ ApplyFilters
  \/ DropColumns
  \/ Tab1
  \/ Tab2Map
  \/ Tab2NoData
  \/ Tab3
  \/ Tab4
  \/ Tab5
  \/ Tab5Raises
  \/ Tab6
  \/ ChangeYearRange
  \/ ChangeHeightRange
  \/ ChangeCities
  \/ SelectCity

Spec == Init /\ [][Next]_vars

\* ================================================================ the claims
\* the run has gone past the filter step (it may have ended in an exception since)
Filtered == pc \notin {"load", "sidebar", "filter"}

\* the run is over
RunOver == pc = "done" \/ exception # ""

CitiesOf(t) == {t[i].location_city : i \in 1..Len(t)}

RowsOfCity(t, c) == {i \in 1..Len(t) : t[i].location_city = c}

\* C1: right after the filter step, the filtered table holds exactly the rows of the
\* loaded table whose completed year is known and within the year range, whose height
\* is within the height range, and whose city is selected or no city is selected; the
\* rows are unchanged and in the table's order.
C1_FilterExact ==
  pc = "drop" =>
    /\ year_range[1] <= year_range[2]
    /\ height_range[1] <= height_range[2]
    /\ \A i \in 1..Len(df) :
         (\E j \in 1..Len(filtered_df) : filtered_df[j]._idx = df[i]._idx)
         <=> /\ df[i].status_completed_year # <<>>
             /\ year_range[1] <= df[i].status_completed_year[1]
             /\ df[i].status_completed_year[1] <= year_range[2]
             /\ height_range[1] * Scale <= df[i].statistics_height
             /\ df[i].statistics_height <= height_range[2] * Scale
             /\ (city_filter = {} \/ df[i].location_city \in city_filter)
    /\ \A j \in 1..Len(filtered_df) : filtered_df[j] = df[filtered_df[j]._idx + 1]
    /\ \A j \in 1..Len(filtered_df), k \in 1..Len(filtered_df) :
         j < k => filtered_df[j]._idx < filtered_df[k]._idx

\* C1 witness: a filter with a city selection and a moved year slider that keeps
\* some rows and leaves some out.
C1_Witness ==
  /\ pc = "drop"
  /\ city_filter # {}
  /\ year_range # DefaultYearRange
  /\ filtered_df # <<>>
  /\ Len(filtered_df) < Len(df)

\* C2: no row whose completed year is 0 in the file is ever in the filtered table.
C2_ZeroYearNeverFiltered ==
  \A j \in 1..Len(filtered_df) :
    csv[filtered_df[j]._idx + 1]["status.completed.year"] # 0

\* C2 witness: the filter has run with the year slider at its full bounds over a file
\* with a year-0 row that passes the height and the city predicates, and kept rows.
C2_Witness ==
  /\ pc = "drop"
  /\ year_range = YearBounds(df)
  /\ filtered_df # <<>>
  /\ \E i \in 1..Len(csv) :
       /\ csv[i]["status.completed.year"] = 0
       /\ HeightInRange(df[i].statistics_height, height_range)
       /\ (city_filter = {} \/ df[i].location_city \in city_filter)

\* C3: a run whose filtered table is empty raises no exception.
C3_EmptySubsetRunCompletes ==
  (Filtered /\ filtered_df = <<>>) => exception = ""

\* C4: the trend series has exactly 2025 - minYear entries, for the consecutive years
\* from minYear, the smallest completed year of the filtered table, each with the
\* number of filtered rows completed in that year.
C4_TrendDense ==
  tab5.kind = "line" =>
    LET series == tab5.year_counts
        years == DropNa(Column(filtered_df, "status_completed_year"))
        minYear == SetMin(Range(years))
    IN /\ Len(series) = 2025 - minYear
       /\ \A i \in 1..Len(series) :
            /\ series[i].index = minYear + i - 1
            /\ series[i].value = Count(years, series[i].index)

\* C5: the table that the statistics, top-cities, trend and download tabs read is the
\* table the column projector produced and the table tab shows.
C5_ViewsShareTable ==
  pc \in {"tab3", "tab4", "tab5", "tab6", "done"} => filtered_df = tab1.data

\* C6: every height shown by the table tab, the map and the download is a whole
\* number of metres.
C6_ShownHeightsRounded ==
  /\ tab1.kind = "table" =>
       \A i \in 1..Len(tab1.data) : tab1.data[i].statistics_height % Scale = 0
  /\ tab2.kind = "pydeck_chart" =>
       \A i \in 1..Len(tab2.city_data) : tab2.city_data[i].statistics_height % Scale = 0
  /\ tab6.kind = "download_button" =>
       \A i \in 1..Len(tab6.data.lines) : tab6.data.lines[i].statistics_height % Scale = 0

\* C7: the top-cities series has at most 10 entries, as many as there are cities when
\* there are fewer, one per city, each with the number of filtered rows of its city,
\* in non-increasing order of count, and no city left out has more rows than a city
\* in it.
C7_TopCities ==
  tab4.kind = "bar" =>
    LET top == tab4.city_counts
        shown == {top[i].index : i \in 1..Len(top)}
    IN /\ Len(top) <= 10
       /\ Len(top) = Min(10, Cardinality(CitiesOf(filtered_df)))
       /\ \A i \in 1..Len(top) :
            /\ top[i].index \in CitiesOf(filtered_df)
            /\ top[i].value = Cardinality(RowsOfCity(filtered_df, top[i].index))
       /\ \A i \in 1..Len(top), j \in 1..Len(top) :
            i < j => (top[i].value >= top[j].value /\ top[i].index # top[j].index)
       /\ \A c \in CitiesOf(filtered_df) \ shown, i \in 1..Len(top) :
            Cardinality(RowsOfCity(filtered_df, c)) <= top[i].value

\* C7 witness: more than ten cities are in the filtered table, the series holds cities
\* with different counts, and a city is left out.
C7_Witness ==
  /\ tab4.kind = "bar"
  /\ Cardinality(CitiesOf(filtered_df)) > 10
  /\ Len(tab4.city_counts) = 10
  /\ tab4.city_counts[1].value > tab4.city_counts[10].value
  /\ \E c \in CitiesOf(filtered_df) :
       \A i \in 1..Len(tab4.city_counts) : tab4.city_counts[i].index # c

\* C8: the summary counts the filtered rows of positive height, and for a filtered
\* table of one row of height H > 0 its maximum, minimum, mean and median are H.
C8_SummaryOfPositiveHeights ==
  (tab3.kind = "summary" /\ tab1.kind = "table") =>
    LET subset == tab1.data
        positive == {i \in 1..Len(subset) : subset[i].statistics_height > 0}
    IN /\ tab3.number = Cardinality(positive)
       /\ (Len(subset) = 1 /\ positive # {}) =>
            LET H == subset[1].statistics_height
            IN /\ tab3.tallest = <<H>>
               /\ tab3.shortest = <<H>>
               /\ tab3.average # <<>> /\ tab3.average[1] * Scale = 100 * H
               /\ tab3.median = <<2 * H>>

\* C9: the city the map shows is the city of a row of the filtered table, so the rows
\* the camera is centred on are not empty; and when the filtered table is empty the
\* map tab shows the message, with no select box.
C9_MapCityInSubset ==
  /\ tab2.kind = "pydeck_chart" =>
       /\ tab2.city_data # <<>>
       /\ tab2.selected_city \in CitiesOf(filtered_df)
       /\ tab2.view_state.latitude # <<>>
       /\ tab2.view_state.longitude # <<>>
       /\ selectbox.options[selectbox.index] = tab2.selected_city
  /\ (tab2.kind # "none" /\ filtered_df = <<>>) =>
       /\ tab2 = [kind |-> "text", text |-> NoMapMessage]
       /\ selectbox = NoWidget

\* C9 witness: after the year slider was moved the user picked the second city of the
\* select box, and the map shows that city.
C9_Witness ==
  /\ pc = "done"
  /\ tab2.kind = "pydeck_chart"
  /\ year_range # DefaultYearRange
  /\ selectbox.index = 2
  /\ Len(tab2.city_data) < Len(filtered_df)

\* C10: when the run is over, a non-empty filtered table is offered as the download
\* filtered_skyscrapers.csv, whose lines are the rows of the table without the
\* excluded columns and without the index, and an empty one shows the message.
C10_DownloadIffNonEmpty ==
  (RunOver /\ Filtered) =>
    IF filtered_df # <<>>
    THEN /\ tab6.kind = "download_button"
         /\ tab6.file_name = "filtered_skyscrapers.csv"
         /\ tab6.data.header \cap ColumnsToExclude = {}
         /\ Len(tab6.data.lines) = Len(filtered_df)
         /\ \A i \in 1..Len(filtered_df) :
              /\ DOMAIN tab6.data.lines[i] = tab6.data.header
              /\ \A c \in tab6.data.header : tab6.data.lines[i][c] = filtered_df[i][c]
    ELSE tab6 = [kind |-> "text", text |-> NoDownloadMessage]

====
